---- MODULE Spec2Model ----
(***************************************************************************)
(* Model of inconsistencias_novedades.py: the reconciliation of the rows   *)
(* of a PostgreSQL table against the records of an XML file.               *)
(*                                                                         *)
(* A Python dict is a sequence of [key, value] records with distinct keys, *)
(* in insertion order.  A string is a sequence of one-character strings,   *)
(* so that quoting and joining act on characters.  The text of an XML      *)
(* element without content (ElementTree's None) is the empty sequence.     *)
(* The log file is the sequence of the messages written to it.             *)
(***************************************************************************)
EXTENDS Naturals, Sequences, FiniteSets

VARIABLES pc, conn, db_data, xml_data, missing_records, sql_query,
          log, executed, closes, raised, xml_file

vars == <<pc, conn, db_data, xml_data, missing_records, sql_query,
          log, executed, closes, raised, xml_file>>

(* ------------------------------ bounds -------------------------------- *)

MaxRows == 11

MaxChildren == 2

MaxDb == 3

MaxXml == 2

(* ------------------------- program constants -------------------------- *)

SampleSize == 10

db_table_name == "data.tramite"

db_town == "25168"

db_date_i == "2024-11-01"

db_date_f == "2024-12-12"

RecordTag == "mutacion_rectificacion"

OtherTag == "otro"

QuoteChar == "'"

(* ------------------------------ inputs -------------------------------- *)

R1 == <<"R", "1">>

R2 == <<"R", "2">>

OB == <<"O", QuoteChar, "B">>

NoText == <<>>

DbValues == {OB, R1, R2}

XmlValues == {R1, R2}

Radicados == {<<"a">>, <<"b">>}

\* The result set of the query: ORDER BY resolution_number ASC puts the
\* values in ascending order ('O' < 'R', '1' < '2'); the ids are distinct.
RowsOf(c1, c2, c3) ==
    [i \in 1..(c1 + c2 + c3) |->
        [id |-> i,
         resolution_number |-> IF i <= c1 THEN OB
                               ELSE IF i <= c1 + c2 THEN R1 ELSE R2]]

ResultSetsUpTo(n) ==
    {RowsOf(c[1], c[2], c[3]) :
        c \in {t \in (0..n) \X (0..n) \X (0..n) : t[1] + t[2] + t[3] <= n}}

ResultSets == ResultSetsUpTo(MaxRows)

\* The result sets of the runs whose termination is checked.
ShortResultSets == ResultSetsUpTo(MaxDb)

\* A child of the document root.  has_x says whether the child element x
\* exists; its text is NoText when the element is empty.
RecordChildren ==
    [tag : {RecordTag},
     has_radicado : BOOLEAN, radicado : Radicados \cup {NoText},
     has_resolucion : BOOLEAN, resolucion : XmlValues \cup {NoText}]

WellFormedChild(ch) ==
    /\ (~ch.has_radicado => ch.radicado = NoText)
    /\ (~ch.has_resolucion => ch.resolucion = NoText)

OtherChild ==
    [tag |-> OtherTag, has_radicado |-> TRUE, radicado |-> <<"a">>,
     has_resolucion |-> TRUE, resolucion |-> R1]

Children == {ch \in RecordChildren : WellFormedChild(ch)} \cup {OtherChild}

SeqsUpTo(S, n) == UNION {[1..k -> S] : k \in 0..n}

NoFile == [parsable |-> FALSE, children |-> <<>>]

XmlFiles ==
    {NoFile} \cup {[parsable |-> TRUE, children |-> cs] :
                      cs \in SeqsUpTo(Children, MaxChildren)}

(* ------------------------------ helpers ------------------------------- *)

Min(a, b) == IF a <= b THEN a ELSE b

Keys(d) == {d[i].key : i \in 1..Len(d)}

Values(d) == {d[i].value : i \in 1..Len(d)}

\* d[k] = v on a dict: a present key keeps its place and takes the value.
DictSet(d, k, v) ==
    IF k \in Keys(d)
    THEN [i \in 1..Len(d) |-> IF d[i].key = k THEN [key |-> k, value |-> v] ELSE d[i]]
    ELSE Append(d, [key |-> k, value |-> v])

RECURSIVE Join(_, _)
Join(sep, parts) ==
    IF parts = <<>> THEN <<>>
    ELSE IF Len(parts) = 1 THEN parts[1]
    ELSE parts[1] \o sep \o Join(sep, Tail(parts))

(* ------------------------------ the log ------------------------------- *)

Msg(kind, num, rad, val) == [kind |-> kind, num |-> num, rad |-> rad, val |-> val]

Line(kind) == Msg(kind, 0, NoText, NoText)

Count(kind, n) == Msg(kind, n, NoText, NoText)

DbLine(kind, e) == Msg(kind, e.key, NoText, e.value)

XmlLine(kind, e) == Msg(kind, 0, e.key, e.value)

(* ------------------------- the pure functions ------------------------- *)

\* {row[0]: row[1] for row in result}
RECURSIVE DictFromRows(_, _)
DictFromRows(rows, acc) ==
    IF rows = <<>> THEN acc
    ELSE DictFromRows(Tail(rows),
                      DictSet(acc, Head(rows).id, Head(rows).resolution_number))

RowLine(row) == Msg("fila_tabla", row.id, NoText, row.resolution_number)

\* get_table_data on a query that returned `rows`: the dict and the messages.
get_table_data_ok(rows) ==
    [data |-> DictFromRows(rows, <<>>),
     log  |-> <<Count("consulta_tabla", Len(rows))>>
              \o (IF rows # <<>>
                  THEN <<Line("primeros_tabla")>>
                       \o [i \in 1..Min(SampleSize, Len(rows)) |-> RowLine(rows[i])]
                  ELSE <<>>)]

\* get_table_data on a query that raised: the except branch.
get_table_data_error ==
    [data |-> <<>>, log |-> <<Line("error_consulta")>>]

\* The loop over root.findall('./mutacion_rectificacion').  record.find(x)
\* is None when the child element x does not exist, and .text then raises.
RECURSIVE ParseRecords(_, _)
ParseRecords(children, acc) ==
    IF children = <<>> THEN [ok |-> TRUE, data |-> acc]
    ELSE LET record == Head(children) IN
         IF record.tag # RecordTag THEN ParseRecords(Tail(children), acc)
         ELSE IF ~record.has_radicado \/ ~record.has_resolucion
              THEN [ok |-> FALSE, data |-> <<>>]
         ELSE IF record.radicado # NoText /\ record.resolucion # NoText
              THEN ParseRecords(Tail(children),
                                DictSet(acc, record.radicado, record.resolucion))
         ELSE ParseRecords(Tail(children), acc)

\* Mutant: the loop keeps what it has indexed when a record raises.
RECURSIVE ParseRecordsPartial(_, _)
ParseRecordsPartial(children, acc) ==
    IF children = <<>> THEN [ok |-> TRUE, data |-> acc]
    ELSE LET record == Head(children) IN
         IF record.tag # RecordTag THEN ParseRecordsPartial(Tail(children), acc)
         ELSE IF ~record.has_radicado \/ ~record.has_resolucion
              THEN [ok |-> FALSE, data |-> acc]
         ELSE IF record.radicado # NoText /\ record.resolucion # NoText
              THEN ParseRecordsPartial(Tail(children),
                                       DictSet(acc, record.radicado, record.resolucion))
         ELSE ParseRecordsPartial(Tail(children), acc)

\* Mutant: the except branch returns xml_data as the loop left it.
parse_xml_partial(f) ==
    LET r == IF f.parsable THEN ParseRecordsPartial(f.children, <<>>)
             ELSE [ok |-> FALSE, data |-> <<>>]
    IN  IF r.ok
        THEN [data |-> r.data,
              log  |-> <<Count("xml_procesado", Len(r.data))>>
                       \o (IF r.data # <<>>
                           THEN <<Line("primeros_xml")>>
                                \o [i \in 1..Min(SampleSize, Len(r.data)) |->
                                       XmlLine("fila_xml", r.data[i])]
                           ELSE <<>>)]
        ELSE [data |-> r.data, log |-> <<Line("error_xml")>>]

parse_xml(f) ==
    LET r == IF f.parsable THEN ParseRecords(f.children, <<>>)
             ELSE [ok |-> FALSE, data |-> <<>>]
    IN  IF r.ok
        THEN [data |-> r.data,
              log  |-> <<Count("xml_procesado", Len(r.data))>>
                       \o (IF r.data # <<>>
                           THEN <<Line("primeros_xml")>>
                                \o [i \in 1..Min(SampleSize, Len(r.data)) |->
                                       XmlLine("fila_xml", r.data[i])]
                           ELSE <<>>)]
        ELSE [data |-> <<>>, log |-> <<Line("error_xml")>>]

\* value not in xml_values
IsMissing(e, xml_values) == e.value \notin xml_values

\* Mutant: the values of D are looked up among the keys of X.
find_missing_records_keys(db, xml) ==
    LET xml_values == Keys(xml)
        missing == SelectSeq(db, LAMBDA e : e.value \notin xml_values)
    IN  [data |-> missing,
         log  |-> <<Count("faltantes", Len(missing))>>
                  \o (IF missing # <<>>
                      THEN <<Line("primeros_faltantes")>>
                           \o [i \in 1..Min(SampleSize, Len(missing)) |->
                                  DbLine("fila_faltante", missing[i])]
                      ELSE <<>>)]

find_missing_records(db, xml) ==
    LET xml_values == Values(xml)
        missing == SelectSeq(db, LAMBDA e : IsMissing(e, xml_values))
    IN  [data |-> missing,
         log  |-> <<Count("faltantes", Len(missing))>>
                  \o (IF missing # <<>>
                      THEN <<Line("primeros_faltantes")>>
                           \o [i \in 1..Min(SampleSize, Len(missing)) |->
                                  DbLine("fila_faltante", missing[i])]
                      ELSE <<>>)]

\* The query of get_table_data.
TableQuery ==
    [table |-> db_table_name, town |-> db_town,
     date_i |-> db_date_i, date_f |-> db_date_f]

\* f"'{value}'"
Literal(value) == <<QuoteChar>> \o value \o <<QuoteChar>>

\* ', '.join(f"'{value}'" for value in missing_records.values())
InList(missing) ==
    Join(<<",", " ">>, [i \in 1..Len(missing) |-> Literal(missing[i].value)])

\* The f-string of main's sql_query.
SqlQuery(missing) ==
    [table |-> db_table_name, town |-> db_town,
     date_i |-> db_date_i, date_f |-> db_date_f,
     in_list |-> InList(missing)]

\* Mutant: the final listing stops after the sample size, as the samples do.
ListingLines_sample(missing) ==
    <<Line("proceso_completado")>>
    \o [i \in 1..Min(SampleSize, Len(missing)) |-> DbLine("listado", missing[i])]

\* The lines of main's final listing.
ListingLines(missing) ==
    <<Line("proceso_completado")>>
    \o [i \in 1..Len(missing) |-> DbLine("listado", missing[i])]

(* ------------------------------ main ---------------------------------- *)

Init ==
    /\ pc = "start"
    /\ conn = "none"
    /\ db_data = <<>>
    /\ xml_data = <<>>
    /\ missing_records = <<>>
    /\ sql_query = <<>>
    /\ log = <<>>
    /\ executed = <<>>
    /\ closes = 0
    /\ raised = FALSE
    /\ xml_file = NoFile

\* with open(log_file, "w"): the log is overwritten with the start line.
Start ==
    /\ pc = "start"
    /\ log' = <<Line("inicio")>>
    /\ pc' = "connect"
    /\ UNCHANGED <<conn, db_data, xml_data, missing_records, sql_query,
                   executed, closes, raised, xml_file>>

\* connect_to_db: psycopg2.connect or a config() lookup raises, or not.
ConnectToDb(ok) ==
    /\ pc = "connect"
    /\ conn' = IF ok THEN "open" ELSE "failed"
    /\ log' = Append(log, Line(IF ok THEN "conexion_exitosa" ELSE "error_conexion"))
    /\ pc' = "check_connection"
    /\ UNCHANGED <<db_data, xml_data, missing_records, sql_query,
                   executed, closes, raised, xml_file>>

\* Mutant: main goes on without looking at what connect_to_db returned.
CheckConnection_unchecked ==
    /\ pc = "check_connection"
    /\ log' = log
    /\ pc' = "get_table_data"
    /\ UNCHANGED <<conn, db_data, xml_data, missing_records, sql_query,
                   executed, closes, raised, xml_file>>

\* if not db_connection: log and return.
CheckConnection ==
    /\ pc = "check_connection"
    /\ IF conn # "open"
       THEN /\ log' = Append(log, Line("conexion_fallida"))
            /\ pc' = "done"
       ELSE /\ log' = log
            /\ pc' = "get_table_data"
    /\ UNCHANGED <<conn, db_data, xml_data, missing_records, sql_query,
                   executed, closes, raised, xml_file>>

\* Mutant: get_table_data lets the exception of the query out, and main
\* leaves through finally.
GetTableData_fatal(ok, rows) ==
    /\ pc = "get_table_data"
    /\ executed' = Append(executed, [query |-> TableQuery, conn |-> conn])
    /\ IF ok
       THEN /\ db_data' = get_table_data_ok(rows).data
            /\ log' = log \o get_table_data_ok(rows).log
            /\ raised' = raised
            /\ pc' = "parse_xml"
       ELSE /\ db_data' = db_data
            /\ log' = log \o get_table_data_error.log
            /\ raised' = TRUE
            /\ pc' = "finally"
    /\ UNCHANGED <<conn, xml_data, missing_records, sql_query, closes, xml_file>>

\* Mutant: get_table_data closes the connection once it has read the rows.
GetTableData_closing(ok, rows) ==
    /\ pc = "get_table_data"
    /\ executed' = Append(executed, [query |-> TableQuery, conn |-> conn])
    /\ LET r == IF ok THEN get_table_data_ok(rows) ELSE get_table_data_error
       IN  /\ db_data' = r.data
           /\ log' = (log \o r.log) \o <<Line("conexion_cerrada")>>
    /\ conn' = "closed"
    /\ closes' = closes + 1
    /\ pc' = "parse_xml"
    /\ UNCHANGED <<xml_data, missing_records, sql_query, raised, xml_file>>

\* db_data = get_table_data(...): the connection is used for the query,
\* which either returns `rows` or raises; `executed` records the use.
GetTableData(ok, rows) ==
    /\ pc = "get_table_data"
    /\ executed' = Append(executed, [query |-> TableQuery, conn |-> conn])
    /\ LET r == IF ok THEN get_table_data_ok(rows) ELSE get_table_data_error
       IN  /\ db_data' = r.data
           /\ log' = log \o r.log
    /\ pc' = "parse_xml"
    /\ UNCHANGED <<conn, xml_data, missing_records, sql_query,
                   closes, raised, xml_file>>

\* xml_data = parse_xml(xml_file_path), the file holding f.
ParseXml(f) ==
    /\ pc = "parse_xml"
    /\ LET r == parse_xml(f)
       IN  /\ xml_data' = r.data
           /\ log' = log \o r.log
    /\ pc' = "find_missing"
    /\ UNCHANGED <<conn, db_data, missing_records, sql_query,
                   executed, closes, raised, xml_file>>

\* missing_records = find_missing_records(db_data, xml_data)
FindMissing ==
    /\ pc = "find_missing"
    /\ LET r == find_missing_records(db_data, xml_data)
       IN  /\ missing_records' = r.data
           /\ log' = log \o r.log
    /\ pc' = "listing"
    /\ UNCHANGED <<conn, db_data, xml_data, sql_query,
                   executed, closes, raised, xml_file>>

\* find_missing_records raises before it returns: control goes to finally.
FindMissingRaises ==
    /\ pc = "find_missing"
    /\ raised' = TRUE
    /\ pc' = "finally"
    /\ UNCHANGED <<conn, db_data, xml_data, missing_records, sql_query,
                   log, executed, closes, xml_file>>

\* The final listing, one line per missing record.
ReportListing ==
    /\ pc = "listing"
    /\ log' = log \o ListingLines(missing_records)
    /\ pc' = "sql"
    /\ UNCHANGED <<conn, db_data, xml_data, missing_records, sql_query,
                   executed, closes, raised, xml_file>>

\* A log write of the listing raises after k lines were written.
ReportListingRaises(k) ==
    /\ pc = "listing"
    /\ k < Len(ListingLines(missing_records))
    /\ log' = log \o SubSeq(ListingLines(missing_records), 1, k)
    /\ raised' = TRUE
    /\ pc' = "finally"
    /\ UNCHANGED <<conn, db_data, xml_data, missing_records, sql_query,
                   executed, closes, xml_file>>

\* Mutant: the query is built and logged without the test of missing_records.
ReportSql_always ==
    /\ pc = "sql"
    /\ sql_query' = <<SqlQuery(missing_records)>>
    /\ log' = log \o <<Line("consulta_sql_titulo"),
                       Msg("consulta_sql", 0, NoText,
                           SqlQuery(missing_records).in_list)>>
    /\ pc' = "finally"
    /\ UNCHANGED <<conn, db_data, xml_data, missing_records,
                   executed, closes, raised, xml_file>>

\* if missing_records: build and log the query.
ReportSql ==
    /\ pc = "sql"
    /\ IF missing_records # <<>>
       THEN /\ sql_query' = <<SqlQuery(missing_records)>>
            /\ log' = log \o <<Line("consulta_sql_titulo"),
                               Msg("consulta_sql", 0, NoText,
                                   SqlQuery(missing_records).in_list)>>
       ELSE /\ sql_query' = sql_query
            /\ log' = log
    /\ pc' = "finally"
    /\ UNCHANGED <<conn, db_data, xml_data, missing_records,
                   executed, closes, raised, xml_file>>

\* The query is built but the log write of its title raises.
ReportSqlRaises ==
    /\ pc = "sql"
    /\ missing_records # <<>>
    /\ sql_query' = <<SqlQuery(missing_records)>>
    /\ raised' = TRUE
    /\ pc' = "finally"
    /\ UNCHANGED <<conn, db_data, xml_data, missing_records,
                   log, executed, closes, xml_file>>

\* Mutant: the close is the last statement of the try block, not a finally.
CloseConnection_in_try ==
    /\ pc = "finally"
    /\ IF raised
       THEN /\ conn' = conn
            /\ closes' = closes
            /\ log' = log
            /\ pc' = "crashed"
       ELSE /\ conn' = "closed"
            /\ closes' = closes + 1
            /\ log' = Append(log, Line("conexion_cerrada"))
            /\ pc' = "fin"
    /\ UNCHANGED <<db_data, xml_data, missing_records, sql_query,
                   executed, raised, xml_file>>

\* finally: db_connection.close() and its log line; a pending exception
\* then leaves main.
CloseConnection ==
    /\ pc = "finally"
    /\ conn' = "closed"
    /\ closes' = closes + 1
    /\ log' = Append(log, Line("conexion_cerrada"))
    /\ pc' = IF raised THEN "crashed" ELSE "fin"
    /\ UNCHANGED <<db_data, xml_data, missing_records, sql_query,
                   executed, raised, xml_file>>

\* log_message("Fin del script.")
Finish ==
    /\ pc = "fin"
    /\ log' = Append(log, Line("fin_script"))
    /\ pc' = "done"
    /\ UNCHANGED <<conn, db_data, xml_data, missing_records, sql_query,
                   executed, closes, raised, xml_file>>

\* One step of main, the query returning one of `results`.
Step(results) ==
    \/ Start
    \/ \E ok \in BOOLEAN : ConnectToDb(ok)
    \/ CheckConnection
    \/ \E rows \in results : GetTableData(TRUE, rows)
    \/ GetTableData(FALSE, <<>>)
    \/ \E f \in XmlFiles : ParseXml(f)
    \/ FindMissing
    \/ FindMissingRaises
    \/ ReportListing
    \/ \E k \in 0..(MaxRows + 1) : ReportListingRaises(k)
    \/ ReportSql
    \/ ReportSqlRaises
    \/ CloseConnection
    \/ Finish

Next == Step(ResultSets)

Spec == Init /\ [][Next]_vars

NextShort == Step(ShortResultSets)

\* A running script takes its next step.
FairSpec == Init /\ [][NextShort]_vars /\ WF_vars(NextShort)

(* ----------------- find_missing_records on any two dicts -------------- *)

XmlKeys == Radicados \cup {<<"c">>}

DistinctKeys(d) == \A i, j \in 1..Len(d) : d[i].key = d[j].key => i = j

DbDicts ==
    {d \in SeqsUpTo([key : 1..MaxDb, value : DbValues], MaxDb) : DistinctKeys(d)}

XmlDicts ==
    {d \in SeqsUpTo([key : XmlKeys, value : DbValues], MaxXml) : DistinctKeys(d)}

InitReconcile ==
    /\ pc = "find_missing"
    /\ conn = "open"
    /\ db_data \in DbDicts
    /\ xml_data \in XmlDicts
    /\ missing_records = <<>>
    /\ sql_query = <<>>
    /\ log = <<>>
    /\ executed = <<>>
    /\ closes = 0
    /\ raised = FALSE
    /\ xml_file = NoFile

NextReconcile == FindMissing

SpecReconcile == InitReconcile /\ [][NextReconcile]_vars

(* ------------------------ parse_xml on any file ----------------------- *)

InitParse ==
    /\ pc = "parse_xml"
    /\ conn = "open"
    /\ db_data = <<>>
    /\ xml_data = <<>>
    /\ missing_records = <<>>
    /\ sql_query = <<>>
    /\ log = <<>>
    /\ executed = <<>>
    /\ closes = 0
    /\ raised = FALSE
    /\ xml_file \in XmlFiles

NextParse == ParseXml(xml_file)

SpecParse == InitParse /\ [][NextParse]_vars

(* ---------------------------- properties ----------------------------- *)

LogOf(kind) == SelectSeq(log, LAMBDA m : m.kind = kind)

HasKind(kind) == \E i \in 1..Len(log) : log[i].kind = kind

Entries(d) == {d[i] : i \in 1..Len(d)}

\* sub occurs in s as a run of consecutive characters.
IsSubstring(sub, s) ==
    \E k \in 0..Len(s) :
        /\ k + Len(sub) <= Len(s)
        /\ \A i \in 1..Len(sub) : s[k + i] = sub[i]

RECURSIVE SumLen(_)
SumLen(parts) == IF parts = <<>> THEN 0 ELSE Len(Head(parts)) + SumLen(Tail(parts))

\* C1: find_missing_records(D, X) returns exactly the entries of D whose
\* value is the value of no entry of X, keys and values unchanged and in
\* D's order; so D = {} gives {}, X = {} gives D, and two entries of D with
\* one value are both in the result or both out of it.
C1_MissingSet ==
    pc = "listing" =>
        /\ DistinctKeys(missing_records)
        /\ Entries(missing_records) =
               {e \in Entries(db_data) :
                   \A j \in 1..Len(xml_data) : xml_data[j].value # e.value}
        /\ \A i, j \in 1..Len(missing_records) :
               i < j => \E a, b \in 1..Len(db_data) :
                           /\ a < b
                           /\ db_data[a] = missing_records[i]
                           /\ db_data[b] = missing_records[j]
        /\ (db_data = <<>> => missing_records = <<>>)
        /\ (xml_data = <<>> => missing_records = db_data)
        /\ \A a, b \in 1..Len(db_data) :
               db_data[a].value = db_data[b].value =>
                   (db_data[a] \in Entries(missing_records)
                        <=> db_data[b] \in Entries(missing_records))

\* Two keys of X hold one value, which two entries of D hold too, and
\* another entry of D is missing.
C1_Witness ==
    /\ pc = "listing"
    /\ \E i, j \in 1..Len(xml_data) :
          /\ i # j
          /\ xml_data[i].value = xml_data[j].value
          /\ \E a, b \in 1..Len(db_data) :
                a # b /\ db_data[a].value = xml_data[i].value
                      /\ db_data[b].value = xml_data[i].value
    /\ missing_records # <<>>

\* C2: when the connection cannot be established the run stops at once: no
\* query, no XML parsing, no reconciliation, no SQL text and no close, and
\* the log holds the start, the connection failure and the termination only.
C2_ConnectionFailureHalts ==
    conn = "failed" =>
        /\ pc \in {"check_connection", "done"}
        /\ executed = <<>>
        /\ closes = 0
        /\ db_data = <<>> /\ xml_data = <<>> /\ missing_records = <<>>
        /\ sql_query = <<>>
        /\ ~raised
        /\ log = IF pc = "done"
                 THEN <<Line("inicio"), Line("error_conexion"), Line("conexion_fallida")>>
                 ELSE <<Line("inicio"), Line("error_conexion")>>

C2_Witness == conn = "failed" /\ pc = "done" /\ Len(log) = 3

Returned == pc \in {"finally", "fin", "done", "crashed"}

XmlRead == HasKind("xml_procesado") \/ HasKind("error_xml")

DbRead == HasKind("consulta_tabla") \/ HasKind("error_consulta")

\* C3, as stated: a failed query aborts the run, so that the XML file is
\* not parsed, the Reconciler does not run and nothing is listed.
C3_QueryFailureAborts ==
    HasKind("error_consulta") =>
        /\ ~XmlRead
        /\ ~HasKind("faltantes")
        /\ ~HasKind("proceso_completado")

\* C3, amended: a failed query is logged and gives an empty DatabaseIndex,
\* and the run goes on: the XML file is parsed, the Reconciler runs and
\* finds nothing missing, the listing is empty, no SQL text is built and
\* the connection is closed.
C3_QueryFailureContinues ==
    HasKind("error_consulta") =>
        /\ db_data = <<>>
        /\ ~HasKind("consulta_tabla")
        /\ pc # "parse_xml" => XmlRead
        /\ missing_records = <<>>
        /\ sql_query = <<>>
        /\ ~HasKind("listado") /\ ~HasKind("consulta_sql")
        /\ (Returned /\ ~raised) =>
               /\ LogOf("faltantes") = <<Count("faltantes", 0)>>
               /\ HasKind("proceso_completado")
        /\ pc \in {"fin", "done", "crashed"} => closes = 1

C3_Witness ==
    /\ pc = "done"
    /\ HasKind("error_consulta")
    /\ HasKind("xml_procesado")
    /\ xml_data # <<>>
    /\ HasKind("faltantes")

\* C4: when the XML file cannot be parsed, parse_xml gives an empty index
\* and the run goes on: the Reconciler runs, the missing set is the whole
\* of D, every entry of D is listed, and for a D that is not empty the SQL
\* text holds the literal of every value of D.
C4_XmlFailureDegrades ==
    HasKind("error_xml") =>
        /\ xml_data = <<>>
        /\ ~HasKind("xml_procesado")
        /\ HasKind("faltantes") => missing_records = db_data
        /\ (Returned /\ ~raised) =>
               /\ HasKind("faltantes")
               /\ Len(LogOf("listado")) = Len(db_data)
               /\ \A i \in 1..Len(db_data) :
                      /\ LogOf("listado")[i].num = db_data[i].key
                      /\ LogOf("listado")[i].val = db_data[i].value
               /\ db_data # <<>> =>
                      /\ Len(sql_query) = 1
                      /\ Len(LogOf("consulta_sql")) = 1
                      /\ LogOf("consulta_sql")[1].val = sql_query[1].in_list
                      /\ \A v \in Values(db_data) :
                             IsSubstring(<<QuoteChar>> \o v \o <<QuoteChar>>,
                                         sql_query[1].in_list)

C4_Witness ==
    /\ pc = "done"
    /\ HasKind("error_xml")
    /\ Cardinality(Values(db_data)) > 1
    /\ HasKind("consulta_sql")

ValidRecord(ch) ==
    /\ ch.tag = RecordTag
    /\ ch.has_radicado /\ ch.radicado # NoText
    /\ ch.has_resolucion /\ ch.resolucion # NoText

\* C6: for a document that parses, the index holds exactly the records
\* with a filing identifier and a resolution value that are present and
\* not empty, the last record of an identifier giving its value; a record
\* without one of them is skipped and the other records are still indexed.
C6_IndexesValidRecords ==
    (pc = "find_missing" /\ xml_file.parsable) =>
        LET cs == xml_file.children
            valid == {i \in 1..Len(cs) : ValidRecord(cs[i])}
        IN  /\ DistinctKeys(xml_data)
            /\ Keys(xml_data) = {cs[i].radicado : i \in valid}
            /\ \A j \in 1..Len(xml_data) :
                   \E i \in valid :
                       /\ cs[i].radicado = xml_data[j].key
                       /\ cs[i].resolucion = xml_data[j].value
                       /\ \A k \in valid :
                              cs[k].radicado = cs[i].radicado => k <= i

SqlLogged == HasKind("consulta_sql")

\* C7: the SQL text is logged iff the missing set is not empty, and then
\* once, with the table, municipality and dates of the query of the table
\* and an IN-list made of the literals of the missing values and of
\* nothing else.
C7_SqlIffMissing ==
    /\ Len(LogOf("consulta_sql")) <= 1
    /\ (Returned /\ ~raised) => (SqlLogged <=> missing_records # <<>>)
    /\ SqlLogged =>
          /\ missing_records # <<>>
          /\ Len(sql_query) = 1
          /\ Len(executed) = 1
          /\ sql_query[1].table = executed[1].query.table
          /\ sql_query[1].town = executed[1].query.town
          /\ sql_query[1].date_i = executed[1].query.date_i
          /\ sql_query[1].date_f = executed[1].query.date_f
          /\ LogOf("consulta_sql")[1].val = sql_query[1].in_list
          /\ \A i \in 1..Len(missing_records) :
                 IsSubstring(<<QuoteChar>> \o missing_records[i].value \o <<QuoteChar>>,
                             sql_query[1].in_list)
          /\ Len(sql_query[1].in_list) =
                 SumLen([i \in 1..Len(missing_records) |-> missing_records[i].value])
                 + 2 * Len(missing_records) + 2 * (Len(missing_records) - 1)

\* A query is logged for a missing set that is a part of D only.
C7_Witness ==
    /\ pc = "done"
    /\ SqlLogged
    /\ Len(missing_records) > 1
    /\ Len(missing_records) < Len(db_data)

HasQuote(v) == \E i \in 1..Len(v) : v[i] = QuoteChar

\* C8: no logged SQL text holds, between the quotes of a literal, a missing
\* value with a quote character of its own left as it is.
C8_NoRawQuote ==
    SqlLogged =>
        \A v \in Values(missing_records) :
            HasQuote(v) =>
                ~IsSubstring(<<QuoteChar>> \o v \o <<QuoteChar>>,
                             LogOf("consulta_sql")[1].val)

ListingDone ==
    \/ pc = "sql"
    \/ Returned /\ (~raised \/ sql_query # <<>>)

\* C9: the final listing has one line for each entry of the missing set,
\* in its order, whatever its size, and the sample of the Reconciler has
\* the first min(10, size) entries.
C9_FullListing ==
    /\ HasKind("faltantes") =>
          /\ Len(LogOf("fila_faltante")) = Min(SampleSize, Len(missing_records))
          /\ \A i \in 1..Len(LogOf("fila_faltante")) :
                 /\ LogOf("fila_faltante")[i].num = missing_records[i].key
                 /\ LogOf("fila_faltante")[i].val = missing_records[i].value
    /\ (HasKind("faltantes") /\ ListingDone) =>
          /\ Len(LogOf("listado")) = Len(missing_records)
          /\ \A i \in 1..Len(missing_records) :
                 /\ LogOf("listado")[i].num = missing_records[i].key
                 /\ LogOf("listado")[i].val = missing_records[i].value

C9_Witness ==
    /\ pc = "done"
    /\ Len(missing_records) > SampleSize
    /\ Len(LogOf("listado")) > SampleSize
    /\ Len(LogOf("fila_faltante")) = SampleSize

\* The stage that writes a message of the log.
Stage(kind) ==
    CASE kind = "inicio" -> 0
      [] kind = "conexion_exitosa" -> 1
      [] kind \in {"consulta_tabla", "primeros_tabla", "fila_tabla", "error_consulta"} -> 2
      [] kind \in {"xml_procesado", "primeros_xml", "fila_xml", "error_xml"} -> 3
      [] kind \in {"faltantes", "primeros_faltantes", "fila_faltante"} -> 4
      [] kind \in {"proceso_completado", "listado"} -> 5
      [] kind \in {"consulta_sql_titulo", "consulta_sql"} -> 6
      [] kind = "conexion_cerrada" -> 7
      [] OTHER -> 8

\* The messages that a stage writes once.
StageHeads ==
    {"inicio", "conexion_exitosa", "consulta_tabla", "error_consulta",
     "xml_procesado", "error_xml", "faltantes", "proceso_completado",
     "consulta_sql", "conexion_cerrada", "fin_script"}

\* C10: with a connection, the stages run in the order connect, read the
\* table, read the XML file, reconcile, list, build the SQL text, close;
\* each at most once, the Reconciler after both readers have returned, and
\* the connection is not used once closed.
C10_StageOrder ==
    conn \in {"open", "closed"} =>
        /\ \A i, j \in 1..Len(log) :
               i < j => Stage(log[i].kind) <= Stage(log[j].kind)
        /\ \A k \in StageHeads : Len(LogOf(k)) <= 1
        /\ ~(HasKind("consulta_tabla") /\ HasKind("error_consulta"))
        /\ ~(HasKind("xml_procesado") /\ HasKind("error_xml"))
        /\ HasKind("faltantes") => (DbRead /\ XmlRead)
        /\ XmlRead => DbRead
        /\ Len(executed) <= 1
        /\ \A i \in 1..Len(executed) : executed[i].conn = "open"
        /\ HasKind("conexion_cerrada") <=> conn = "closed"
        /\ conn = "closed" => pc \in {"fin", "done", "crashed"}
        /\ pc \in {"fin", "done", "crashed"} => Len(executed) = 1

C10_Witness ==
    /\ pc = "done"
    /\ conn = "closed"
    /\ HasKind("consulta_tabla")
    /\ HasKind("xml_procesado")
    /\ HasKind("listado")
    /\ SqlLogged

====
